---- MODULE Spec2Model ----
(***************************************************************************)
(* inquirer-interactive-text: the navigate/edit state machine of the       *)
(* prompt (createPrompt callback), its action registry (parseActions,      *)
(* class Action), the per-keystroke pipeline (validate), the full-grid      *)
(* sweep (validateFields) and the template renderer.                       *)
(*                                                                         *)
(* Text is a sequence of one-character strings; "" is <<>>.  An optional   *)
(* value (T | undefined) is a sequence of length 0 or 1.  A values or      *)
(* errors mapping is a function whose DOMAIN is the set of keys present.    *)
(* Positions and columns are 0-based as in the source.                     *)
(***************************************************************************)
EXTENDS Integers, Sequences, FiniteSets, TLC

\* Longest text the host line, the edit buffer and a value may hold.
MaxLen == 1

\* The farthest a position is followed to the left of the grid.
MaxLeft == 2

Chars == {"a", "b"}

Texts == UNION {[1..n -> Chars] : n \in 0..MaxLen}

Min(S) == CHOOSE m \in S : \A n \in S : m <= n

\* JavaScript truthiness of an optional string: undefined and '' are falsy.
Truthy(opt) == opt # <<>> /\ opt[1] # <<>>

\* record[key] of a Record<string, T>: undefined when the key is absent.
Lookup(rec, key) == IF key \in DOMAIN rec THEN <<rec[key]>> ELSE <<>>

\* { ...rec, [key]: val }
Spread(rec, key, val) ==
  [k \in DOMAIN rec \cup {key} |-> IF k = key THEN val ELSE rec[k]]

\* const { [key]: _, ...rest } = rec
Omit(rec, key) == [k \in DOMAIN rec \ {key} |-> rec[k]]

(***************************************************************************)
(* Field callbacks.  A validator returns a message, <<>> standing for any  *)
(* falsy result (undefined, null, '').                                      *)
(***************************************************************************)
NoB(value) ==
  IF \E i \in 1..Len(value) : value[i] = "b"
    THEN <<"must not contain b">> ELSE <<>>

NonEmpty(value) ==
  IF value = <<>> THEN <<"must not be empty">> ELSE <<>>

runValidator(name, value) ==
  CASE name = "noB" -> NoB(value)
    [] name = "nonEmpty" -> NonEmpty(value)

BToA(value) ==
  [i \in 1..Len(value) |-> IF value[i] = "b" THEN "a" ELSE value[i]]

runTransformer(name, value) ==
  CASE name = "bToA" -> BToA(value)

\* A Field: validator, transformer, defaultValue and placeholder are optional.
Field(id, required, validator, transformer, defaultValue) ==
  [id |-> id, required |-> required, validator |-> validator,
   transformer |-> transformer, defaultValue |-> defaultValue,
   placeholder |-> <<>>]

\* { ...field, placeholder }
WithPlaceholder(field, placeholder) ==
  [field EXCEPT !.placeholder = <<placeholder>>]

GridCommit ==
  << << Field("type", TRUE, <<"noB">>, <<>>, <<>>),
        Field("scope", FALSE, <<>>, <<"bToA">>, << <<"a">> >>) >>,
     << WithPlaceholder(Field("body", FALSE, <<"nonEmpty">>, <<>>, <<>>),
                        <<"t", "e", "x", "t">>) >> >>

GridForm ==
  << << Field("name", TRUE, <<>>, <<>>, <<>>) >>,
     << Field("age", FALSE, <<"nonEmpty">>, <<"bToA">>, <<>>),
        Field("note", FALSE, <<"noB">>, <<>>, << <<"b">> >>) >> >>

\* A grid with the same id twice.
GridTwins ==
  << << Field("name", FALSE, <<>>, <<>>, <<>>),
        Field("name", FALSE, <<>>, <<>>, <<>>) >> >>

Grids == [commit |-> GridCommit, form |-> GridForm, twins |-> GridTwins]

\* fieldGrid.flat()
RECURSIVE Flat(_)
Flat(rows) == IF rows = <<>> THEN <<>> ELSE Head(rows) \o Flat(Tail(rows))

getFlatFields(fieldGrid) == Flat(fieldGrid)

FieldIds(fieldGrid) ==
  {getFlatFields(fieldGrid)[i].id : i \in 1..Len(getFlatFields(fieldGrid))}

\* fieldGrid[position.row]?.[position.col]
getFieldAtPosition(fieldGrid, position) ==
  IF /\ position.row \in 0..(Len(fieldGrid) - 1)
     /\ position.col \in 0..(Len(fieldGrid[position.row + 1]) - 1)
    THEN <<fieldGrid[position.row + 1][position.col + 1]>>
    ELSE <<>>

(***************************************************************************)
(* validateFields: the reduce over the flat fields, in order.  The result  *)
(* is <<>> for null and <<errors>> otherwise.                               *)
(***************************************************************************)
\* A sweep step that runs the validator on an empty value too.
validateStepOnEmpty(errors, field, state) ==
  LET value == Lookup(state, field.id)
      text == IF value = <<>> THEN <<>> ELSE value[1]
      error == IF field.validator # <<>>
                 THEN runValidator(field.validator[1], text) ELSE <<>>
  IN IF error # <<>> THEN Spread(errors, field.id, error)
     ELSE IF ~Truthy(value) /\ field.required
            THEN Spread(errors, field.id, <<field.id, " is required">>)
            ELSE errors

validateStep(errors, field, state) ==
  LET value == Lookup(state, field.id)
  IN IF Truthy(value)
       THEN IF field.validator # <<>>
              THEN LET error == runValidator(field.validator[1], value[1])
                   IN IF error # <<>> THEN Spread(errors, field.id, error)
                                      ELSE errors
              ELSE errors
       ELSE IF field.required
              THEN Spread(errors, field.id, <<field.id, " is required">>)
              ELSE errors

RECURSIVE validateReduce(_, _, _)
validateReduce(errors, flat, state) ==
  IF flat = <<>> THEN errors
  ELSE validateReduce(validateStep(errors, Head(flat), state), Tail(flat), state)

validateFields(state, fields) ==
  LET errors == validateReduce(<<>>, getFlatFields(fields), state)
  IN IF DOMAIN errors # {} THEN <<errors>> ELSE <<>>

(***************************************************************************)
(* navigatePosition: a direction is the key name of an arrow key.          *)
(***************************************************************************)
kUp == <<"u", "p">>
kDown == <<"d", "o", "w", "n">>
kLeft == <<"l", "e", "f", "t">>
kRight == <<"r", "i", "g", "h", "t">>
kEnter == <<"e", "n", "t", "e", "r">>
kReturn == <<"r", "e", "t", "u", "r", "n">>
kEscape == <<"e", "s", "c", "a", "p", "e">>
kDelete == <<"d", "e", "l", "e", "t", "e">>
kAltEnter == <<"a", "l", "t", "+">> \o kEnter
kF1 == <<"f", "1">>
kBackspace == <<"b", "a", "c", "k", "s", "p", "a", "c", "e">>

Directions == {kUp, kDown, kLeft, kRight}

\* fieldGrid[i] of a 0-based index: undefined outside the array.
RowAt(fieldGrid, i) ==
  IF i \in 0..(Len(fieldGrid) - 1) THEN <<fieldGrid[i + 1]>> ELSE <<>>

MinOf(a, b) == IF a <= b THEN a ELSE b

\* a % b of JavaScript for b > 0: the result has the sign of a.
rem(a, b) == IF a >= 0 THEN a % b ELSE 0 - ((0 - a) % b)

\* navigatePosition with the column kept as it is on a vertical move.
navigateKeepsCol(fieldGrid, current, direction) ==
  LET row == current.row
      col == current.col
      n == Len(fieldGrid)
  IN CASE direction = kRight ->
            [row |-> row, col |-> (col + 1) % Len(fieldGrid[row + 1])]
       [] direction = kLeft ->
            [row |-> row,
             col |-> IF col = 0 THEN Len(fieldGrid[row + 1]) - 1 ELSE col - 1]
       [] direction = kDown -> [row |-> (row + 1) % n, col |-> col]
       [] direction = kUp ->
            [row |-> IF row = 0 THEN n - 1 ELSE row - 1, col |-> col]

\* navigatePosition with 'left' stopping at the first column.
navigateLeftStops(fieldGrid, current, direction) ==
  LET row == current.row
      col == current.col
      n == Len(fieldGrid)
      target == IF direction = kDown THEN (row + 1) % n
                ELSE IF row = 0 THEN n - 1 ELSE row - 1
  IN CASE direction = kRight ->
            [row |-> row, col |-> (col + 1) % Len(fieldGrid[row + 1])]
       [] direction = kLeft ->
            [row |-> row, col |-> IF col = 0 THEN 0 ELSE col - 1]
       [] direction \in {kDown, kUp} ->
            [row |-> target,
             col |-> MinOf(col, Len(fieldGrid[target + 1]) - 1)]

\* navigatePosition with 'down' stopping at the last row.
navigateDownStops(fieldGrid, current, direction) ==
  LET row == current.row
      col == current.col
      n == Len(fieldGrid)
      target == IF direction = kDown THEN MinOf(row + 1, n - 1)
                ELSE IF row = 0 THEN n - 1 ELSE row - 1
  IN CASE direction = kRight ->
            [row |-> row, col |-> (col + 1) % Len(fieldGrid[row + 1])]
       [] direction = kLeft ->
            [row |-> row,
             col |-> IF col = 0 THEN Len(fieldGrid[row + 1]) - 1 ELSE col - 1]
       [] direction \in {kDown, kUp} ->
            [row |-> target,
             col |-> MinOf(col, Len(fieldGrid[target + 1]) - 1)]

navigatePosition(fieldGrid, current, direction) ==
  LET row == current.row
      col == current.col
  IN CASE direction = kRight ->
            LET currentRow == RowAt(fieldGrid, row)
            IN IF currentRow = <<>> THEN current
               ELSE [row |-> row, col |-> rem(col + 1, Len(currentRow[1]))]
       [] direction = kLeft ->
            LET currentRow == RowAt(fieldGrid, row)
            IN IF currentRow = <<>> THEN current
               ELSE [row |-> row,
                     col |-> IF col = 0 THEN Len(currentRow[1]) - 1 ELSE col - 1]
       [] direction = kDown ->
            LET nextRow == rem(row + 1, Len(fieldGrid))
                targetRow == RowAt(fieldGrid, nextRow)
            IN IF targetRow = <<>> THEN current
               ELSE [row |-> nextRow, col |-> MinOf(col, Len(targetRow[1]) - 1)]
       [] direction = kUp ->
            LET prevRow == IF row = 0 THEN Len(fieldGrid) - 1 ELSE row - 1
                targetRow == RowAt(fieldGrid, prevRow)
            IN IF targetRow = <<>> THEN current
               ELSE [row |-> prevRow, col |-> MinOf(col, Len(targetRow[1]) - 1)]

(***************************************************************************)
(* class Action and parseActions.                                          *)
(***************************************************************************)
UpperCase == <<"A", "B", "C", "D", "E", "F", "G", "H", "I", "J", "K", "L", "M",
               "N", "O", "P", "Q", "R", "S", "T", "U", "V", "W", "X", "Y", "Z">>
LowerCase == <<"a", "b", "c", "d", "e", "f", "g", "h", "i", "j", "k", "l", "m",
               "n", "o", "p", "q", "r", "s", "t", "u", "v", "w", "x", "y", "z">>

toLowerCase(s) ==
  [i \in 1..Len(s) |->
     IF \E j \in 1..Len(UpperCase) : UpperCase[j] = s[i]
       THEN LowerCase[CHOOSE j \in 1..Len(UpperCase) : UpperCase[j] = s[i]]
       ELSE s[i]]

IsSpace(ch) == ch \in {" ", "\t"}

\* s.replace(/\s/g, '')
removeWhitespace(s) == SelectSeq(s, LAMBDA ch : ~IsSpace(ch))

\* s.replace(pattern, replacement) with a literal pattern: the first match only.
replaceFirst(s, pattern, replacement) ==
  LET hits == {i \in 1..(Len(s) - Len(pattern) + 1) :
                 SubSeq(s, i, i + Len(pattern) - 1) = pattern}
  IN IF hits = {} THEN s
     ELSE LET i == Min(hits)
          IN SubSeq(s, 1, i - 1) \o replacement \o SubSeq(s, i + Len(pattern), Len(s))

keyCombinationOf(key) ==
  replaceFirst(toLowerCase(removeWhitespace(key)), kEnter, kReturn)

BuiltinTags == {"edit", "remove", "done", "cancel", "save"}

\* An ActionConfig: the label is optional.
ActionConfig(scope, name, action, key) ==
  [scope |-> scope, name |-> name, action |-> action, key |-> key,
   label |-> <<>>]

\* { ...actionConfig, label }
WithLabel(actionConfig, label) == [actionConfig EXCEPT !.label = <<label>>]

\* The positions of the character ch in s.
indexesOf(s, ch) == {i \in 1..Len(s) : s[i] = ch}

\* s.split('+')
RECURSIVE split(_)
split(s) ==
  IF indexesOf(s, "+") = {} THEN <<s>>
  ELSE <<SubSeq(s, 1, Min(indexesOf(s, "+")) - 1)>>
         \o split(SubSeq(s, Min(indexesOf(s, "+")) + 1, Len(s)))

\* v.replace(/^\w/, v => v.toUpperCase())
capitalise(v) ==
  IF v = <<>> THEN v
  ELSE IF \E j \in 1..Len(LowerCase) : LowerCase[j] = v[1]
         THEN <<UpperCase[CHOOSE j \in 1..Len(LowerCase) : LowerCase[j] = v[1]]>>
                \o Tail(v)
  ELSE v

\* keys.join('+')
RECURSIVE join(_)
join(keys) ==
  IF Len(keys) = 1 THEN keys[1] ELSE keys[1] \o <<"+">> \o join(Tail(keys))

\* const v = value; Body(v): the value is computed once.
With(value, Body(_)) == CHOOSE r \in {Body(v) : v \in {value}} : TRUE

\* The label derived from the key combination: `(${...})`
derivedLabel(keyCombination) ==
  With(split(keyCombination), LAMBDA parts :
    With(join([i \in 1..Len(parts) |-> capitalise(parts[i])]), LAMBDA joined :
      <<"(">>
        \o replaceFirst(joined, <<"R", "e", "t", "u", "r", "n">>,
                        <<"E", "n", "t", "e", "r">>)
        \o <<")">>))

labelDel == <<"(", "D", "e", "l", ")">>
labelEsc == <<"(", "E", "s", "c", ")">>

\* new Action(scope, name, action, key, label): the action is a builtin tag,
\* resolved through actionMap when triggered, or the identity of a custom
\* callback.
ActionL(scope, name, action, key, label) ==
  With(keyCombinationOf(key), LAMBDA keyCombination :
    [scope |-> scope, name |-> name, action |-> action,
     keyCombination |-> keyCombination,
     label |-> IF label # <<>> THEN label[1]
               ELSE derivedLabel(keyCombination)])

\* new Action(scope, name, action, key)
Action(scope, name, action, key) == ActionL(scope, name, action, key, <<>>)

\* ({ scope, name, action, key, label }) => new Action(scope, name, action, key, label)
newAction(actionConfig) ==
  ActionL(actionConfig.scope, actionConfig.name, actionConfig.action,
          actionConfig.key, actionConfig.label)

\* `${this.name} ${this.label}`: the name is one element of the text.
toString(action) == <<action.name, " ">> \o action.label

isTriggered(action, key) ==
  LET k0 == <<toLowerCase(key.name)>>
      k1 == IF key.ctrl THEN << <<"c", "t", "r", "l">> >> \o k0 ELSE k0
      k2 == IF key.shift THEN << <<"s", "h", "i", "f", "t">> >> \o k1 ELSE k1
      k3 == IF key.meta THEN << <<"a", "l", "t">> >> \o k2 ELSE k2
  IN action.keyCombination = join(k3)

declares(actionConfigs, tag) ==
  \E i \in 1..Len(actionConfigs) : actionConfigs[i].action = tag

\* The merged list 'actions' of parseActions with a default pushed for every
\* builtin tag, declared by the user or not.
mergedWithAllDefaults(actionConfigs) ==
  [i \in 1..Len(actionConfigs) |->
     newAction(actionConfigs[i])]
  \o << Action("navigate", "Done", "done", kAltEnter),
        Action("navigate", "Edit", "edit", kEnter),
        ActionL("navigate", "Remove", "remove", kDelete, <<labelDel>>),
        ActionL("edit", "Cancel", "cancel", kEscape, <<labelEsc>>),
        Action("edit", "Save", "save", kEnter) >>

\* The merged list with the defaults of the earlier revision: 'e' edits and
\* a bare Enter is done.
mergedWithOldDefaults(actionConfigs) ==
  [i \in 1..Len(actionConfigs) |->
     newAction(actionConfigs[i])]
  \o << Action("navigate", "Edit", "edit", <<"e">>),
        ActionL("navigate", "Remove", "remove", kDelete, <<labelDel>>),
        Action("navigate", "Done", "done", kEnter),
        ActionL("edit", "Cancel", "cancel", kEscape, <<labelEsc>>),
        Action("edit", "Save", "save", kEnter) >>

\* The local 'actions' of parseActions once the defaults are pushed.
mergedActions(actionConfigs) ==
  LET a0 == [i \in 1..Len(actionConfigs) |->
               newAction(actionConfigs[i])]
      a1 == IF ~declares(actionConfigs, "done")
              THEN Append(a0, Action("navigate", "Done", "done", kAltEnter)) ELSE a0
      a2 == IF ~declares(actionConfigs, "edit")
              THEN Append(a1, Action("navigate", "Edit", "edit", kEnter)) ELSE a1
      a3 == IF ~declares(actionConfigs, "remove")
              THEN Append(a2, ActionL("navigate", "Remove", "remove", kDelete, <<labelDel>>)) ELSE a2
      a4 == IF ~declares(actionConfigs, "cancel")
              THEN Append(a3, ActionL("edit", "Cancel", "cancel", kEscape, <<labelEsc>>)) ELSE a3
  IN IF ~declares(actionConfigs, "save")
       THEN Append(a4, Action("edit", "Save", "save", kEnter)) ELSE a4

parseActions(actionConfigs) ==
  LET merged == mergedActions(actionConfigs)
  IN [editActions |-> SelectSeq(merged, LAMBDA a : a.scope = "edit"),
      navigationActions |-> SelectSeq(merged, LAMBDA a : a.scope = "navigate")]

\* actions.find(action => action.isTriggered(key))
\* find taking the last action that is triggered instead of the first.
findLastTriggered(actions, key) ==
  LET hits == {i \in 1..Len(actions) : isTriggered(actions[i], key)}
  IN IF hits = {} THEN <<>>
     ELSE <<actions[CHOOSE i \in hits : \A j \in hits : j <= i]>>

findTriggered(actions, key) ==
  LET hits == {i \in 1..Len(actions) : isTriggered(actions[i], key)}
  IN IF hits = {} THEN <<>> ELSE <<actions[Min(hits)]>>

(***************************************************************************)
(* The prompt.  config names the configuration the prompt was created     *)
(* with (a grid and a list of user actions) and never changes; fields,     *)
(* actions and the memoised editActions and navigationActions are read     *)
(* from it.  The five useState cells, the host's input line and the        *)
(* prompt's result are the state.  fired names what the last key event     *)
(* dispatched to and lineRead is the rl.line its handler was given.        *)
(***************************************************************************)
VARIABLES config, values, errors, position, editMode, editValue,
          line, terminated, result, fired, lineRead

vars == <<config, values, errors, position, editMode, editValue,
          line, terminated, result, fired, lineRead>>

\* A key event of the host: name and modifier flags.
Key(name, ctrl, shift, meta) ==
  [name |-> name, ctrl |-> ctrl, shift |-> shift, meta |-> meta]

Keys ==
  {Key(n, FALSE, FALSE, FALSE) :
     n \in {kReturn, kEscape, kDelete, kUp, kDown, kLeft, kRight, kF1,
            kBackspace} \cup {<<ch>> : ch \in Chars}}
  \cup {Key(kReturn, FALSE, FALSE, TRUE), Key(kLeft, FALSE, TRUE, FALSE)}

NoActions == <<>>

CustomActions ==
  << ActionConfig("navigate", "Finish", "cbDone", kF1),
     ActionConfig("edit", "Keep", "save", <<"E", "n", "t", "e", "r">>),
     ActionConfig("navigate", "Help", "cbHelp", kF1),
     ActionConfig("navigate", "Top", "cbHelp", kUp),
     ActionConfig("edit", "Stash", "cbStash", kF1) >>

\* A list whose first action has a key combo without a key name; the others
\* focus a field by id.
MalformedActions ==
  << ActionConfig("navigate", "Bad", "cbHelp", <<"c", "t", "r", "l", "+">>),
     ActionConfig("navigate", "Jump", "cbJump", kEscape),
     ActionConfig("navigate", "Lost", "cbLost", kBackspace) >>

UserActionLists ==
  [none |-> NoActions, custom |-> CustomActions, malformed |-> MalformedActions]

\* useMemo(() => parseActions(config.actions), [config.actions])
ParsedActions == [u \in DOMAIN UserActionLists |-> parseActions(UserActionLists[u])]

\* The dispatch of every key event, tabulated once per configuration.
Triggered ==
  [u \in DOMAIN UserActionLists |->
     [key \in Keys |->
        [edit |-> findTriggered(ParsedActions[u].editActions, key),
         navigate |-> findTriggered(ParsedActions[u].navigationActions, key)]]]

\* The configurations a prompt is created with.
Configs ==
  {[fields |-> "commit", actions |-> "none"],
   [fields |-> "form", actions |-> "custom"],
   [fields |-> "twins", actions |-> "malformed"]}

fields == Grids[config.fields]
actions == UserActionLists[config.actions]
editActions == ParsedActions[config.actions].editActions
navigationActions == ParsedActions[config.actions].navigationActions

\* config.initialValues: undefined, or a partial values mapping.
InitialValuesOf(fieldGrid) ==
  {<<>>} \cup
  { << [k \in {id} |-> t] >> : id \in FieldIds(fieldGrid), t \in {<<>>, <<"b">>} }

\* The initialiser with || in place of ??: an empty initial value gives way to
\* the default.
initialStateOr(fieldGrid, initialValues) ==
  LET flat == getFlatFields(fieldGrid)
      ValueOf(field) ==
        IF initialValues # <<>> /\ Truthy(Lookup(initialValues[1], field.id))
          THEN initialValues[1][field.id]
          ELSE IF field.defaultValue # <<>> THEN field.defaultValue[1]
          ELSE <<>>
  IN [id \in FieldIds(fieldGrid) |->
        ValueOf(flat[CHOOSE i \in 1..Len(flat) : flat[i].id = id])]

\* useState<State> initialiser: initialValues?.[id] ?? defaultValue ?? ''
initialState(fieldGrid, initialValues) ==
  LET flat == getFlatFields(fieldGrid)
      ValueOf(field) ==
        IF initialValues # <<>> /\ field.id \in DOMAIN initialValues[1]
          THEN initialValues[1][field.id]
          ELSE IF field.defaultValue # <<>> THEN field.defaultValue[1]
          ELSE <<>>
  IN [id \in FieldIds(fieldGrid) |->
        ValueOf(flat[CHOOSE i \in 1..Len(flat) :
                       /\ flat[i].id = id
                       /\ \A j \in 1..Len(flat) : flat[j].id = id => j <= i])]

\* The controls object of one render: what the key handler's closure reads.
Controls ==
  [state |-> values, errors |-> errors, editMode |-> editMode,
   editValue |-> editValue, position |-> position,
   currentField |-> getFieldAtPosition(fields, position)]

\* The cells the setters write; the last write of a handler run remains.
Store ==
  [state |-> values, errors |-> errors, editMode |-> editMode,
   editValue |-> editValue, position |-> position,
   terminated |-> terminated, result |-> result]

\* controls.done: () => done(values)
controlsDone(c, st) == [st EXCEPT !.terminated = TRUE, !.result = c.state]

\* Any object, the empty one included, is truthy.
ObjectTruthy(obj) == TRUE

\* An edit that opens the buffer empty instead of on the committed value.
editBlank(c, st) ==
  IF c.currentField = <<>> THEN st
  ELSE [st EXCEPT !.editMode = TRUE, !.editValue = <<>>]

\* actionMap.edit
edit(c, st) ==
  IF c.currentField = <<>> THEN st
  ELSE LET v == Lookup(c.state, c.currentField[1].id)
       IN [st EXCEPT !.editMode = TRUE,
                     !.editValue = IF Truthy(v) THEN v[1] ELSE <<>>]

\* actionMap.remove
remove(c, st) ==
  IF c.currentField = <<>> THEN st
  ELSE [st EXCEPT !.state = Omit(c.state, c.currentField[1].id)]

\* actionMap.done
done(c, st) ==
  IF ~ObjectTruthy(c.errors) THEN controlsDone(c, st)
  ELSE [st EXCEPT !.errors = c.errors]

\* A cancel that writes the buffer into the values on its way out.
cancelCommits(c, st) ==
  IF c.currentField = <<>> THEN [st EXCEPT !.editMode = FALSE, !.editValue = <<>>]
  ELSE [st EXCEPT !.state = Spread(c.state, c.currentField[1].id, c.editValue),
                  !.editMode = FALSE,
                  !.editValue = <<>>]

\* actionMap.cancel
cancel(c, st) == [st EXCEPT !.editMode = FALSE, !.editValue = <<>>]

\* A save without the guard on the current field's error.
saveUnguarded(c, st) ==
  IF c.currentField = <<>> THEN st
  ELSE [st EXCEPT !.state = Spread(c.state, c.currentField[1].id, c.editValue),
                  !.editMode = FALSE,
                  !.editValue = <<>>]

\* A save that also moves the focus to the next field of the row.
saveAndAdvance(c, st) ==
  IF c.currentField = <<>> \/ Truthy(Lookup(c.errors, c.currentField[1].id))
    THEN st
  ELSE [st EXCEPT !.state = Spread(c.state, c.currentField[1].id, c.editValue),
                  !.editMode = FALSE,
                  !.editValue = <<>>,
                  !.position = navigatePosition(fields, c.position, kRight)]

\* actionMap.save
save(c, st) ==
  IF c.currentField = <<>> \/ Truthy(Lookup(c.errors, c.currentField[1].id))
    THEN st
  ELSE [st EXCEPT !.state = Spread(c.state, c.currentField[1].id, c.editValue),
                  !.editMode = FALSE,
                  !.editValue = <<>>]

\* A custom callback that ends the session through controls.done().
cbDone(c, st) == controlsDone(c, st)

\* A second custom callback of a user action: ({ setErrors }) => setErrors({})
cbHelp(c, st) == [st EXCEPT !.errors = <<>>]

\* controls.setCurrentField(id): the loop leaves rowIndex at the first row that
\* holds the id with columnIndex its first index there, or at the number of
\* rows with columnIndex -1 (0 for a grid without rows).
setCurrentField(fieldGrid, id, st) ==
  LET holds(r) == {k \in 1..Len(fieldGrid[r]) : fieldGrid[r][k].id = id}
      rowsWith == {r \in 1..Len(fieldGrid) : holds(r) # {}}
  IN [st EXCEPT !.position =
        IF rowsWith # {}
          THEN [row |-> Min(rowsWith) - 1, col |-> Min(holds(Min(rowsWith))) - 1]
          ELSE [row |-> Len(fieldGrid),
                col |-> IF fieldGrid = <<>> THEN 0 ELSE 0 - 1]]

\* The id each focusing callback passes to setCurrentField.
JumpTarget == [cbJump |-> "name", cbLost |-> "ghost"]

\* Custom callbacks: ({ setCurrentField }) => setCurrentField('name') and
\* ({ setCurrentField }) => setCurrentField('ghost')
cbJump(fieldGrid, c, st) == setCurrentField(fieldGrid, JumpTarget.cbJump, st)
cbLost(fieldGrid, c, st) == setCurrentField(fieldGrid, JumpTarget.cbLost, st)

\* What cbStash writes.
stashError == <<"stashed">>
stashValue == <<"a">>
stashBuffer == <<"b">>

\* A custom callback of the edit scope that writes every cell:
\* ({ state, setState, setErrors, setEditValue, setEditMode, setCurrentField }) => {
\*   setState({ ...state, name: 'a' }); setErrors({ note: 'stashed' });
\*   setEditValue('b'); setEditMode(false); setCurrentField('note'); }
cbStash(fieldGrid, c, st) ==
  setCurrentField(fieldGrid, "note",
    [st EXCEPT !.state = Spread(c.state, "name", stashValue),
               !.errors = [k \in {"note"} |-> stashError],
               !.editValue = stashBuffer,
               !.editMode = FALSE])

\* Action.trigger
trigger(action, c, st) ==
  CASE action.action = "edit" -> edit(c, st)
    [] action.action = "remove" -> remove(c, st)
    [] action.action = "done" -> done(c, st)
    [] action.action = "cancel" -> cancel(c, st)
    [] action.action = "save" -> save(c, st)
    [] action.action = "cbDone" -> cbDone(c, st)
    [] action.action = "cbHelp" -> cbHelp(c, st)
    [] action.action = "cbJump" -> cbJump(fields, c, st)
    [] action.action = "cbLost" -> cbLost(fields, c, st)
    [] action.action = "cbStash" -> cbStash(fields, c, st)

\* The key of the errors entry validate writes: id ?? ''
errorKey(c) == IF c.currentField = <<>> THEN "" ELSE c.currentField[1].id

\* transformer ? transformer(currentLine) : currentLine
transformed(currentLine, c) ==
  IF c.currentField # <<>> /\ c.currentField[1].transformer # <<>>
    THEN runTransformer(c.currentField[1].transformer[1], currentLine)
    ELSE currentLine

\* A validate that keeps the raw line, not the transformed value, as the buffer.
validateKeepsRaw(currentLine, c, st) ==
  LET transformedValue == transformed(currentLine, c)
      error == IF c.currentField # <<>> /\ c.currentField[1].validator # <<>>
                 THEN runValidator(c.currentField[1].validator[1], transformedValue)
                 ELSE <<>>
  IN [st EXCEPT !.errors = IF error = <<>> THEN Omit(c.errors, errorKey(c))
                           ELSE Spread(c.errors, errorKey(c), error),
                !.editValue = currentLine]

\* A validate that leaves alone the cells the action has just written.
validateKeepsWrites(currentLine, c, st) ==
  LET transformedValue == transformed(currentLine, c)
      error == IF c.currentField # <<>> /\ c.currentField[1].validator # <<>>
                 THEN runValidator(c.currentField[1].validator[1], transformedValue)
                 ELSE <<>>
  IN [st EXCEPT !.errors = IF st.errors # c.errors THEN st.errors
                           ELSE IF error = <<>> THEN Omit(c.errors, errorKey(c))
                           ELSE Spread(c.errors, errorKey(c), error),
                !.editValue = IF st.editValue # c.editValue THEN st.editValue
                              ELSE transformedValue]

\* validate(currentLine, controls)
validate(currentLine, c, st) ==
  LET transformedValue == transformed(currentLine, c)
      error == IF c.currentField # <<>> /\ c.currentField[1].validator # <<>>
                 THEN runValidator(c.currentField[1].validator[1], transformedValue)
                 ELSE <<>>
  IN [st EXCEPT !.errors = IF error = <<>> THEN Omit(c.errors, errorKey(c))
                           ELSE Spread(c.errors, errorKey(c), error),
                !.editValue = transformedValue]

\* What the dispatched action is called in fired.
firedOf(found) == IF found = <<>> THEN "none" ELSE found[1].action

\* The host's line when the handler runs.  The host's readline has applied the
\* key to its line before the handler is called: Return submits the line and
\* empties it, Backspace erases a character, a character key types it, Up and
\* Down recall a line of the history, and any other key leaves the line alone.
HostLines(l, key) ==
  IF key.ctrl \/ key.meta THEN {l}
  ELSE IF key.name = kReturn THEN {<<>>}
  ELSE IF key.name = kBackspace
         THEN {IF l = <<>> THEN l ELSE SubSeq(l, 1, Len(l) - 1)}
  ELSE IF key.name \in {kUp, kDown} THEN Texts
  ELSE IF Len(key.name) = 1 /\ key.name[1] \in Chars
         THEN IF Len(l) < MaxLen THEN {l \o key.name} ELSE {}
  ELSE {l}

\* useEffect(rl => rl.clearLine(0), [editMode]): runs when editMode changed.
lineAfterEffect(rlLine, before, after) ==
  IF before # after THEN <<>> ELSE rlLine

Commit(st, rlLine, name) ==
  /\ values' = st.state
  /\ errors' = st.errors
  /\ editMode' = st.editMode
  /\ editValue' = st.editValue
  /\ position' = st.position
  /\ terminated' = st.terminated
  /\ result' = st.result
  /\ line' = lineAfterEffect(rlLine, editMode, st.editMode)
  /\ fired' = name
  /\ lineRead' = rlLine
  /\ UNCHANGED config

\* The editMode branch on one key event: the triggered edit action, then
\* validate.
EditOn(key) ==
  \E found \in {Triggered[config.actions][key].edit} :
    \E st1 \in {IF found # <<>> THEN trigger(found[1], Controls, Store)
                 ELSE Store} :
      \E rlLine \in HostLines(line, key) :
        \E st2 \in {validate(rlLine, Controls, st1)} :
          Commit(st2, rlLine, firedOf(found))

\* useKeypress, editMode branch.
EditKeypress ==
  /\ ~terminated
  /\ editMode
  /\ \E key \in Keys : EditOn(key)

\* An arrow test that lets only unmodified arrow events through.
isPlainArrow(key) ==
  key.name \in Directions /\ ~key.ctrl /\ ~key.meta /\ ~key.shift

\* ['up', 'down', 'left', 'right'].includes(key.name)
isArrow(key) == key.name \in Directions

\* The navigate branch on an arrow key: return setPosition(...)
ArrowOn(key) ==
  /\ isArrow(key)
  /\ \E st1 \in {[Store EXCEPT !.position =
                     navigatePosition(fields, position, key.name)]} :
       /\ st1.position.col >= 0 - MaxLeft
       /\ \E rlLine \in HostLines(line, key) : Commit(st1, rlLine, "arrow")

\* useKeypress, navigate branch, arrow key.
ArrowKeypress ==
  /\ ~terminated
  /\ ~editMode
  /\ \E key \in Keys : ArrowOn(key)

\* The navigate branch on any other key: the triggered navigate action.
DispatchOn(key) ==
  /\ ~isArrow(key)
  /\ \E found \in {Triggered[config.actions][key].navigate} :
       \E st1 \in {IF found # <<>> THEN trigger(found[1], Controls, Store)
                    ELSE Store} :
         \E rlLine \in HostLines(line, key) :
           Commit(st1, rlLine, firedOf(found))

\* useKeypress, navigate branch, any other key.
NavigateKeypress ==
  /\ ~terminated
  /\ ~editMode
  /\ \E key \in Keys : DispatchOn(key)

Init ==
  /\ config \in Configs
  /\ \E initialValues \in InitialValuesOf(fields) :
       values = initialState(fields, initialValues)
  /\ errors = <<>>
  /\ position = [row |-> 0, col |-> 0]
  /\ editMode = FALSE
  /\ editValue = <<>>
  /\ line = <<>>
  /\ terminated = FALSE
  /\ result = <<>>
  /\ fired = "init"
  /\ lineRead = <<>>

Next == EditKeypress \/ ArrowKeypress \/ NavigateKeypress

Spec == Init /\ [][Next]_vars

(***************************************************************************)
(* Properties.                                                             *)
(***************************************************************************)
currentField == getFieldAtPosition(fields, position)

committedOrEmpty(id) ==
  IF Truthy(Lookup(values, id)) THEN values[id] ELSE <<>>

\* What the full-grid sweep is specified to report for one field.
sweepMessage(field, state) ==
  LET value == Lookup(state, field.id)
  IN IF ~Truthy(value)
       THEN IF field.required THEN <<field.id, " is required">> ELSE <<>>
       ELSE IF field.validator # <<>>
              THEN runValidator(field.validator[1], value[1])
              ELSE <<>>

FlatSet(fieldGrid) ==
  {getFlatFields(fieldGrid)[i] : i \in 1..Len(getFlatFields(fieldGrid))}

\* C1: in Navigate mode a key event that triggers done runs the sweep on the
\* committed values; with no error the session terminates and yields the
\* values, otherwise it does not terminate, the errors become the sweep's
\* result and the mode stays Navigate.
C1_DoneRunsSweep ==
  [][ (~editMode /\ fired' = "done") =>
        IF validateFields(values, fields) = <<>>
          THEN terminated' /\ result' = values
          ELSE /\ ~terminated'
               /\ errors' = validateFields(values, fields)[1]
               /\ ~editMode' ]_vars

\* C2: whenever the session has terminated, the yielded values hold a non-empty
\* value for every required field and every non-empty value of a field with a
\* validator passes it.
C2_ResultValid ==
  terminated =>
    \A f \in FlatSet(fields) :
      /\ f.required => Truthy(Lookup(result, f.id))
      /\ (f.validator # <<>> /\ Truthy(Lookup(result, f.id)))
           => runValidator(f.validator[1], result[f.id]) = <<>>

\* C3: in Edit mode a key event that triggers save commits the edit buffer
\* under the focused field's id and switches to Navigate exactly when the
\* errors hold no entry for the focused field; otherwise the values are
\* unchanged and the mode remains Edit.
C3_SaveIffNoError ==
  [][ (editMode /\ fired' = "save" /\ currentField # <<>>) =>
        IF currentField[1].id \notin DOMAIN errors
          THEN /\ values' = Spread(values, currentField[1].id, editValue)
               /\ ~editMode'
          ELSE /\ values' = values
               /\ editMode' ]_vars

\* A save was refused: the key triggered save and the mode is still Edit.
C3_Witness == fired = "save" /\ editMode /\ currentField # <<>>

\* C4: a key event that triggers cancel in Edit mode leaves the mode Navigate
\* and leaves the whole values mapping and the position unchanged.
C4_CancelKeepsValues ==
  [][ (editMode /\ fired' = "cancel") =>
        /\ ~editMode'
        /\ values' = values
        /\ position' = position ]_vars

\* A cancel on a line that was not empty.
C4_Witness == fired = "cancel" /\ ~editMode /\ lineRead # <<>>

\* C5: in Navigate mode with a field at the position, a key event that triggers
\* edit switches to Edit and sets the edit buffer to the field's committed
\* value (empty when it has none); values, errors and position are unchanged.
C5_EditOpensOnCommitted ==
  [][ (~editMode /\ fired' = "edit" /\ currentField # <<>>) =>
        /\ editMode'
        /\ editValue' = committedOrEmpty(currentField[1].id)
        /\ values' = values
        /\ errors' = errors
        /\ position' = position ]_vars

\* Edit was entered on a field whose committed value is not empty.
C5_Witness ==
  /\ fired = "edit" /\ editMode /\ currentField # <<>>
  /\ editValue # <<>>
  /\ editValue = committedOrEmpty(currentField[1].id)

\* C6: when edit enters Edit mode on a field with committed value v, the host
\* line is cleared and seeded with v, so the next Edit-mode key event reads a
\* line that starts from v.
C6_LineSeeded ==
  (fired = "edit" /\ editMode /\ currentField # <<>>) =>
    line = committedOrEmpty(currentField[1].id)

\* C7: after a cancel, or a save that commits, has been processed to the end
\* the edit buffer is empty: in every Navigate state the edit buffer is empty.
C7_NavigateBufferEmpty == ~editMode => editValue = <<>>

\* The value the pipeline is specified to leave in the buffer.
pipelineValue(field, rlLine) ==
  IF field.transformer # <<>>
    THEN runTransformer(field.transformer[1], rlLine) ELSE rlLine

\* The message the pipeline is specified to record (<<>>: none).
pipelineMessage(field, rlLine) ==
  IF field.validator # <<>>
    THEN runValidator(field.validator[1], pipelineValue(field, rlLine)) ELSE <<>>

\* C8: after every key event handled in Edit mode the edit buffer is the
\* focused field's transformer applied to the line the handler read, the errors
\* hold the validator's message for the focused field when it returns one and
\* no entry for it otherwise, and the entries of all other fields are unchanged.
C8_PipelineEveryKey ==
  [][ (editMode /\ currentField # <<>>) =>
        LET f == currentField[1]
            msg == pipelineMessage(f, lineRead')
        IN /\ editValue' = pipelineValue(f, lineRead')
           /\ IF msg # <<>>
                THEN f.id \in DOMAIN errors' /\ errors'[f.id] = msg
                ELSE f.id \notin DOMAIN errors'
           /\ DOMAIN errors' \ {f.id} = DOMAIN errors \ {f.id}
           /\ \A k \in DOMAIN errors \ {f.id} : errors'[k] = errors[k] ]_vars

\* A key in Edit mode whose line the transformer changed.
C8_Witness ==
  /\ editMode /\ fired = "none" /\ currentField # <<>>
  /\ lineRead = <<"b">>
  /\ editValue = <<"a">>
  /\ currentField[1].id \notin DOMAIN errors

\* C9: every errors entry has a non-empty message and belongs to a field that
\* is failing now: its committed value fails the sweep rule, or it is the
\* focused field in Edit mode and the edit buffer fails its validator.
C9_ErrorsOnlyFailing ==
  \A f \in FlatSet(fields) :
    f.id \in DOMAIN errors =>
      /\ errors[f.id] # <<>>
      /\ \/ sweepMessage(f, values) # <<>>
         \/ /\ editMode
            /\ currentField = <<f>>
            /\ f.validator # <<>>
            /\ runValidator(f.validator[1], editValue) # <<>>

\* C10: the sweep reports exactly the required fields whose value is empty or
\* absent, with "<id> is required", and the fields whose non-empty value fails
\* their validator, with its message; it never runs a validator on an empty
\* value and returns null when no field fails.
C10_SweepExact ==
  LET failing == {f \in FlatSet(fields) : sweepMessage(f, values) # <<>>}
      swept == validateFields(values, fields)
  IN IF failing = {}
       THEN swept = <<>>
       ELSE /\ swept # <<>>
            /\ DOMAIN swept[1] = {f.id : f \in failing}
            /\ \A f \in failing : swept[1][f.id] = sweepMessage(f, values)

\* The done key was pressed on values on which a required field is empty, a
\* validator fails on a non-empty value, and a field whose validator rejects
\* the empty value is empty.
C10_Witness ==
  LET swept == validateFields(values, fields)
  IN /\ fired = "done"
     /\ swept # <<>>
     /\ \E f \in FlatSet(fields) :
          /\ f.required /\ ~Truthy(Lookup(values, f.id))
          /\ Lookup(swept[1], f.id) = << <<f.id, " is required">> >>
     /\ \E f \in FlatSet(fields) :
          /\ Truthy(Lookup(values, f.id)) /\ f.validator # <<>>
          /\ Lookup(swept[1], f.id) = << <<"must not contain b">> >>
     /\ \E f \in FlatSet(fields) :
          /\ f.validator = <<"nonEmpty">> /\ ~Truthy(Lookup(values, f.id))
          /\ f.id \notin DOMAIN swept[1]

(***************************************************************************)
(* Navigation over grids of every shape.  navigatePosition reads only the  *)
(* number of rows and the length of each row, so a grid is drawn for every *)
(* tuple of row lengths up to MaxRows rows of up to MaxCols fields.        *)
(***************************************************************************)
MaxRows == 3
MaxCols == 3

ShapeGrid(lens) ==
  [r \in 1..Len(lens) |->
     [c \in 1..lens[r] |->
        Field("r" \o ToString(r - 1) \o "c" \o ToString(c - 1),
              FALSE, <<>>, <<>>, <<>>)]]

NavGrids ==
  {ShapeGrid(lens) : lens \in UNION {[1..n -> 1..MaxCols] : n \in 1..MaxRows}}
    \cup {Grids[k] : k \in DOMAIN Grids}

ValidPositions(fieldGrid) ==
  UNION {{[row |-> r, col |-> c] : c \in 0..(Len(fieldGrid[r + 1]) - 1)} :
           r \in 0..(Len(fieldGrid) - 1)}

\* useState<Position>({ row: 0, col: 0 })
origin == [row |-> 0, col |-> 0]

DefaultBindings == actions = NoActions

NavigationClosed ==
  \A g \in NavGrids :
    /\ origin \in ValidPositions(g)
    /\ \A pos \in ValidPositions(g) : \A d \in Directions :
         navigatePosition(g, pos, d) \in ValidPositions(g)

\* C11: with the default bindings the position always indexes an existing
\* field: it does so in every reachable state of a session, and on a grid of
\* any shape the origin is a field and every arrow key takes a position on a
\* field to a position on a field.
C11_PositionOnField ==
  /\ NavigationClosed
  /\ DefaultBindings =>
       /\ position \in ValidPositions(fields)
       /\ getFieldAtPosition(fields, position) # <<>>

\* The clamp has acted: down from (0,1) of the commit grid lands on (1,0).
C11_Witness ==
  /\ DefaultBindings
  /\ fired = "arrow"
  /\ Len(fields[1]) = 2 /\ Len(fields[2]) = 1
  /\ position = [row |-> 1, col |-> 0]

RightLeftRoundTrip(g, pos) ==
  /\ navigatePosition(g, navigatePosition(g, pos, kRight), kLeft) = pos
  /\ navigatePosition(g, navigatePosition(g, pos, kLeft), kRight) = pos

RoundTripEverywhere ==
  \A g \in NavGrids : \A pos \in ValidPositions(g) : RightLeftRoundTrip(g, pos)

\* C12: on every grid and from every position on a field, right then left
\* and left then right both come back to the position they started from.
C12_RightLeftInverse ==
  /\ RoundTripEverywhere
  /\ position \in ValidPositions(fields) =>
       RightLeftRoundTrip(fields, position)

\* The focus stands on the last field of a two-field row, reached by an
\* arrow key: right wraps from here and left must undo the wrap.
C12_Witness ==
  /\ fired = "arrow"
  /\ position.col = 1
  /\ Len(fields[position.row + 1]) = 2

\* The position each arrow key must produce, stated from the grid's shape.
WrapAndClamp(g, pos) ==
  LET rows == Len(g)
      len == Len(g[pos.row + 1])
      right == navigatePosition(g, pos, kRight)
      left == navigatePosition(g, pos, kLeft)
      down == navigatePosition(g, pos, kDown)
      up == navigatePosition(g, pos, kUp)
      clamped(p) ==
        LET last == Len(g[p.row + 1]) - 1
        IN /\ p.col <= pos.col /\ p.col <= last
           /\ p.col = pos.col \/ p.col = last
  IN /\ right.row = pos.row
     /\ right.col = (IF pos.col = len - 1 THEN 0 ELSE pos.col + 1)
     /\ left.row = pos.row
     /\ left.col = (IF pos.col = 0 THEN len - 1 ELSE pos.col - 1)
     /\ down.row = (IF pos.row = rows - 1 THEN 0 ELSE pos.row + 1)
     /\ clamped(down)
     /\ up.row = (IF pos.row = 0 THEN rows - 1 ELSE pos.row - 1)
     /\ clamped(up)

WrapAndClampEverywhere ==
  \A g \in NavGrids : \A pos \in ValidPositions(g) : WrapAndClamp(g, pos)

\* C13: right and left wrap inside the row and leave the row unchanged, down
\* and up wrap over the rows, and a vertical move lands on the column
\* min(col, length of the target row - 1).
C13_WrapAndClamp ==
  /\ WrapAndClampEverywhere
  /\ position \in ValidPositions(fields) => WrapAndClamp(fields, position)

\* An arrow key has put the focus on the last field of the last row (here a
\* row longer than the first), from where down and right both wrap.
C13_Witness ==
  /\ fired = "arrow"
  /\ position.row = Len(fields) - 1
  /\ position.col = Len(fields[position.row + 1]) - 1
  /\ position.col > 0

(***************************************************************************)
(* The action registry.  KeyEvents are the key events of a few key names   *)
(* under every set of modifier flags; UserLists are the lists of up to     *)
(* MaxUserActions user actions drawn from UserActionPool, which rebinds    *)
(* builtin tags (done twice), and holds a custom callback.                 *)
(***************************************************************************)
MaxUserActions == 2

kX == <<"x">>

KeyEvents ==
  {Key(n, c, s, m) :
     n \in {kReturn, kEscape, kDelete, kF1, kX, kUp}, c \in BOOLEAN,
     s \in BOOLEAN, m \in BOOLEAN}

UserActionPool ==
  { ActionConfig("navigate", "Finish", "cbDone", kF1),
    ActionConfig("edit", "Keep", "save", <<"E", "n", "t", "e", "r">>),
    ActionConfig("edit", "Back", "cancel", kX),
    ActionConfig("navigate", "Open", "edit", kX),
    ActionConfig("navigate", "Submit", "done", <<"c", "t", "r", "l", "+", "x">>),
    ActionConfig("navigate", "Send", "done", kF1),
    ActionConfig("navigate", "Wipe", "remove", kEnter) }

UserLists ==
  UNION {[1..n -> UserActionPool] : n \in 0..MaxUserActions}
    \cup {UserActionLists[u] : u \in DOMAIN UserActionLists}

\* The key event each documented default is bound to.
DocumentedBinding ==
  [save |-> Key(kReturn, FALSE, FALSE, FALSE),
   cancel |-> Key(kEscape, FALSE, FALSE, FALSE),
   edit |-> Key(kReturn, FALSE, FALSE, FALSE),
   remove |-> Key(kDelete, FALSE, FALSE, FALSE),
   done |-> Key(kReturn, FALSE, FALSE, TRUE)]

tagsOf(list) == {list[i].action : i \in 1..Len(list)}

FiveDefaults ==
  LET parsed == parseActions(NoActions)
      all == parsed.editActions \o parsed.navigationActions
  IN /\ Len(parsed.editActions) = 2
     /\ tagsOf(parsed.editActions) = {"save", "cancel"}
     /\ Len(parsed.navigationActions) = 3
     /\ tagsOf(parsed.navigationActions) = {"edit", "remove", "done"}
     /\ \A i \in 1..Len(all) : \A key \in KeyEvents :
          isTriggered(all[i], key) <=> key = DocumentedBinding[all[i].action]

count(list, Test(_)) == Cardinality({i \in 1..Len(list) : Test(list[i])})

\* What the merge does to one list of user actions.
MergeLaw(actionConfigs) ==
  LET merged == mergedActions(actionConfigs)
      parsed == parseActions(actionConfigs)
      n == Len(actionConfigs)
      appended == SubSeq(merged, n + 1, Len(merged))
  IN /\ Len(merged) >= n
     /\ \A i \in 1..n :
          merged[i] = newAction(actionConfigs[i])
     /\ \A i \in 1..Len(appended) : appended[i].action \in BuiltinTags
     /\ \A t \in BuiltinTags :
          count(appended, LAMBDA a : a.action = t)
            = (IF declares(actionConfigs, t) THEN 0 ELSE 1)
     /\ parsed.editActions = SelectSeq(merged, LAMBDA a : a.scope = "edit")
     /\ parsed.navigationActions
          = SelectSeq(merged, LAMBDA a : a.scope = "navigate")
     /\ Len(parsed.editActions) + Len(parsed.navigationActions) = Len(merged)

MergeLawEverywhere == \A actionConfigs \in UserLists : MergeLaw(actionConfigs)

\* C15: for every list of user actions and every builtin tag, no default is
\* appended for a tag some user action declares and exactly one for a tag
\* none declares; every user action is kept, in its order, ahead of the
\* appended defaults, and each scope's list keeps that order.
C15_DefaultsFillGaps ==
  /\ MergeLawEverywhere
  /\ \A t \in BuiltinTags :
       declares(actions, t) =>
         count(editActions \o navigationActions, LAMBDA a : a.action = t)
           = count(actions, LAMBDA a : a.action = t)

\* The user's own save has fired in a session whose list declares save: the
\* edit scope holds that action and no default save.
C15_Witness ==
  /\ declares(actions, "save")
  /\ fired = "save"
  /\ count(editActions, LAMBDA a : a.action = "save") = 1

\* C16: for every list of user actions, two of which may declare the same
\* builtin tag, each scope of the result holds at most one action per
\* builtin tag.
C16_OnePerTag ==
  \A actionConfigs \in UserLists \cup {actions} : \A t \in BuiltinTags :
    LET parsed == parseActions(actionConfigs)
    IN /\ count(parsed.editActions, LAMBDA a : a.action = t) <= 1
       /\ count(parsed.navigationActions, LAMBDA a : a.action = t) <= 1

(***************************************************************************)
(* Declared key combos: a set of modifiers written in some order before a  *)
(* key name, in lower case joined by '+' or capitalised and joined by      *)
(* ' + '.                                                                  *)
(***************************************************************************)
Modifiers == {"ctrl", "shift", "alt"}

written ==
  [plain |-> [ctrl |-> <<"c", "t", "r", "l">>,
              shift |-> <<"s", "h", "i", "f", "t">>,
              alt |-> <<"a", "l", "t">>,
              x |-> <<"x">>,
              enter |-> <<"e", "n", "t", "e", "r">>],
   spaced |-> [ctrl |-> <<"C", "t", "r", "l">>,
               shift |-> <<"S", "h", "i", "f", "t">>,
               alt |-> <<"A", "L", "T">>,
               x |-> <<"X">>,
               enter |-> <<"E", "n", "t", "e", "r">>]]

separator == [plain |-> <<"+">>, spaced |-> <<" ", "+", " ">>]

\* The key name the host reports for a declared key name.
hostName == [x |-> kX, enter |-> kReturn]

orderings(mods) ==
  {order \in [1..Cardinality(mods) -> mods] :
     \A i, j \in DOMAIN order : order[i] = order[j] => i = j}

RECURSIVE joinWith(_, _)
joinWith(parts, sep) ==
  IF Len(parts) = 1 THEN parts[1]
  ELSE parts[1] \o sep \o joinWith(Tail(parts), sep)

\* The key string of a declaration.
declaredKey(order, name, style) ==
  joinWith([i \in 1..(Len(order) + 1) |->
              IF i <= Len(order) THEN written[style][order[i]]
              ELSE written[style][name]],
           separator[style])

\* The combo the specification normalises a declaration to.
canonicalCombo(mods, name) ==
  join(SelectSeq(<< <<"c", "t", "r", "l">>, <<"s", "h", "i", "f", "t">>,
                    <<"a", "l", "t">> >>,
                 LAMBDA m : \E k \in mods : written.plain[k] = m)
       \o <<hostName[name]>>)

ComboLaw(mods, order, name, style) ==
  LET a == Action("navigate", "Act", "cbDone", declaredKey(order, name, style))
  IN /\ a.keyCombination = canonicalCombo(mods, name)
     /\ \A c, s, m \in BOOLEAN : \A n \in {kX, kReturn} :
          isTriggered(a, Key(n, c, s, m))
            <=> /\ n = hostName[name]
                /\ c = ("ctrl" \in mods)
                /\ s = ("shift" \in mods)
                /\ m = ("alt" \in mods)

ComboLawEverywhere ==
  \A mods \in SUBSET Modifiers : \A order \in orderings(mods) :
    \A name \in {"x", "enter"} : \A style \in {"plain", "spaced"} :
      ComboLaw(mods, order, name, style)

\* C17: a key combo declared with any set of modifiers, in any order and
\* letter case, with or without spaces, is normalised to ctrl, shift, alt,
\* key name and is triggered by exactly the key events with that key name
\* and that set of modifier flags, 'enter' standing for the host's 'return';
\* so every action of a session is triggered by some key event.
C17_ComboNormalised ==
  /\ ComboLawEverywhere
  /\ \A i \in 1..Len(navigationActions) :
       \E key \in KeyEvents : isTriggered(navigationActions[i], key)

(***************************************************************************)
(* Dispatch of a key event.                                                *)
(***************************************************************************)
\* found is what a scope's list must dispatch the key to: its first action,
\* in registration order, whose combo matches the key, or nothing.
FirstMatch(list, key, found) ==
  IF found = <<>>
    THEN \A i \in 1..Len(list) : ~isTriggered(list[i], key)
    ELSE \E i \in 1..Len(list) :
           /\ found[1] = list[i]
           /\ isTriggered(list[i], key)
           /\ \A j \in 1..(i - 1) : ~isTriggered(list[j], key)

FirstMatchEverywhere ==
  \A actionConfigs \in UserLists : \A key \in KeyEvents \cup Keys :
    LET parsed == parseActions(actionConfigs)
    IN /\ FirstMatch(parsed.editActions, key,
                     findTriggered(parsed.editActions, key))
       /\ FirstMatch(parsed.navigationActions, key,
                     findTriggered(parsed.navigationActions, key))

\* The tags a key event can fire in each mode of each configuration: for
\* every key the first match of the mode's own scope, or none.
Fireable ==
  [u \in DOMAIN UserActionLists |->
     [mode \in BOOLEAN |->
        LET list == IF mode THEN ParsedActions[u].editActions
                    ELSE ParsedActions[u].navigationActions
            first(key) ==
              LET hits == {i \in 1..Len(list) : isTriggered(list[i], key)}
              IN IF hits = {} THEN "none"
                 ELSE list[CHOOSE i \in hits : \A j \in hits : i <= j].action
        IN {first(key) : key \in {k \in Keys : mode \/ k.name \notin Directions}}]]

\* C18: a key event fires at most one action, the first of the current
\* mode's scope, in registration order, whose combo matches it: every step
\* dispatches to such a first match of the mode it was taken in (or to the
\* arrow keys in Navigate mode), never to an action of the other scope or to
\* an action a former one shadows.
C18_FirstMatchFires ==
  [][ /\ FirstMatchEverywhere
      /\ fired' \in Fireable[config.actions][editMode]
                      \cup (IF editMode THEN {} ELSE {"arrow"}) ]_vars

\* F1 has fired the user's Finish, registered before Help on the same key.
C18_Witness ==
  /\ fired = "cbDone"
  /\ \E i, j \in 1..Len(navigationActions) :
       /\ i < j
       /\ navigationActions[i].action = "cbDone"
       /\ navigationActions[j].action = "cbHelp"
       /\ navigationActions[i].keyCombination = navigationActions[j].keyCombination

(***************************************************************************)
(* The template renderer.  A styled text holds the escape sequence a style *)
(* opens and closes with as one element each.                              *)
(***************************************************************************)
\* The characters of the field ids and of the ids a template names.
idText ==
  [type |-> <<"t", "y", "p", "e">>,
   scope |-> <<"s", "c", "o", "p", "e">>,
   subject |-> <<"s", "u", "b", "j", "e", "c", "t">>,
   body |-> <<"b", "o", "d", "y">>,
   name |-> <<"n", "a", "m", "e">>,
   age |-> <<"a", "g", "e">>,
   note |-> <<"n", "o", "t", "e">>]

\* The field id a text spells, if any.
idOf(text) ==
  IF \E id \in DOMAIN idText : idText[id] = text
    THEN <<CHOOSE id \in DOMAIN idText : idText[id] = text>> ELSE <<>>

\* if (!field.placeholder) field.placeholder = required ? `<${id}>` : `${id}?`
withPlaceholder(field) ==
  IF ~Truthy(field.placeholder)
    THEN [field EXCEPT !.placeholder =
            << IF field.required THEN <<"<">> \o idText[field.id] \o <<">">>
               ELSE idText[field.id] \o <<"?">> >>]
    ELSE field

\* Object.fromEntries(config.fields.flat().map(field => [field.id, field]))
fieldsById(fieldGrid) ==
  LET flat == getFlatFields(fieldGrid)
  IN [id \in {flat[i].id : i \in 1..Len(flat)} |->
        LET last == CHOOSE i \in 1..Len(flat) :
                      /\ flat[i].id = id
                      /\ \A j \in 1..Len(flat) : flat[j].id = id => j <= i
        IN withPlaceholder(flat[last])]

\* yoctocolors: the sequences a style opens and closes with.
styles ==
  [red |-> <<"ESC[31m", "ESC[39m">>, green |-> <<"ESC[32m", "ESC[39m">>,
   yellow |-> <<"ESC[33m", "ESC[39m">>, blue |-> <<"ESC[34m", "ESC[39m">>,
   gray |-> <<"ESC[90m", "ESC[39m">>, italic |-> <<"ESC[3m", "ESC[23m">>,
   bold |-> <<"ESC[1m", "ESC[22m">>, black |-> <<"ESC[30m", "ESC[39m">>,
   white |-> <<"ESC[37m", "ESC[39m">>, magenta |-> <<"ESC[35m", "ESC[39m">>,
   cyan |-> <<"ESC[36m", "ESC[39m">>, dim |-> <<"ESC[2m", "ESC[22m">>,
   underline |-> <<"ESC[4m", "ESC[24m">>,
   strikethrough |-> <<"ESC[9m", "ESC[29m">>]

\* styles[style](value)
applyStyle(style, value) == <<styles[style][1]>> \o value \o <<styles[style][2]>>

\* A StyleConfig: one style name, an array of names, or a function.
StyleName(name) == [kind |-> "name", name |-> name]
StyleArray(names) == [kind |-> "array", names |-> names]
StyleFunction(fn) == [kind |-> "function", fn |-> fn]

\* A user's style function: value => `[${value}]`
bracket(value) == <<"[">> \o value \o <<"]">>

runStyleFunction(fn, value) ==
  CASE fn = "bracket" -> bracket(value)

defaultErrorStyle == StyleArray(<<"italic", "red">>)
defaultEditingStyle == StyleArray(<<"italic", "gray">>)
defaultSelectedStyle == StyleName("blue")

RECURSIVE reduceStyles(_, _)
reduceStyles(styleStrings, value) ==
  IF styleStrings = <<>> THEN value
  ELSE reduceStyles(Tail(styleStrings), applyStyle(Head(styleStrings), value))

\* parseStyle(style)(value)
parseStyle(style, value) ==
  IF style.kind = "function" THEN runStyleFunction(style.fn, value)
  ELSE LET styleStrings == IF style.kind = "array" THEN style.names
                           ELSE <<style.name>>
       IN reduceStyles(styleStrings, value)

\* \w
IsWord(ch) ==
  \/ \E i \in 1..Len(LowerCase) : ch = LowerCase[i] \/ ch = UpperCase[i]
  \/ ch \in {"0", "1", "2", "3", "4", "5", "6", "7", "8", "9", "_"}

\* The end of the longest run of word characters that follows position i.
wordEnd(s, i) ==
  CHOOSE k \in i..Len(s) :
    /\ \A j \in (i + 1)..k : IsWord(s[j])
    /\ k < Len(s) => ~IsWord(s[k + 1])

\* The matches of /{(\w+)}/g in s from position i on, left to right, and the
\* characters between them.
RECURSIVE matchAll(_, _)
matchAll(s, i) ==
  IF i > Len(s) THEN <<>>
  ELSE LET k == wordEnd(s, i)
       IN IF s[i] = "{" /\ k > i /\ k < Len(s) /\ s[k + 1] = "}"
            THEN <<[match |-> TRUE, text |-> SubSeq(s, i, k + 1)]>>
                   \o matchAll(s, k + 2)
            ELSE <<[match |-> FALSE, text |-> <<s[i]>>]>> \o matchAll(s, i + 1)

\* RendererOpts: the three styles are optional.
RendererOpts(template, errorStyle, selectedStyle, editingStyle) ==
  [template |-> template, errorStyle |-> errorStyle,
   selectedStyle |-> selectedStyle, editingStyle |-> editingStyle]

\* style ?? defaultStyle
orDefault(style, defaultStyle) == IF style = <<>> THEN defaultStyle ELSE style[1]

\* The callback of template.replace with the tests for the editing style
\* and the error style in the other order.
replaceMatchEditingFirst(opts, fieldsMap, match, state, isEdit, errorFields, focusedField) ==
  LET field == SubSeq(match, 2, Len(match) - 1)
      id == idOf(field)
      isFocused == focusedField # <<>> /\ id = focusedField
      value == IF id = <<>> THEN <<>> ELSE Lookup(state, id[1])
      valueStr == IF Truthy(value) THEN value[1]
                  ELSE IF id # <<>> /\ id[1] \in DOMAIN fieldsMap
                         THEN fieldsMap[id[1]].placeholder[1] ELSE field
  IN IF isEdit /\ isFocused
       THEN parseStyle(orDefault(opts.editingStyle, defaultEditingStyle), valueStr)
     ELSE IF isFocused
       THEN parseStyle(orDefault(opts.selectedStyle, defaultSelectedStyle), valueStr)
     ELSE valueStr

\* The callback of template.replace with the bare id for every empty value.
replaceMatchBareId(opts, fieldsMap, match, state, isEdit, errorFields, focusedField) ==
  LET field == SubSeq(match, 2, Len(match) - 1)
      id == idOf(field)
      isFocused == focusedField # <<>> /\ id = focusedField
      value == IF id = <<>> THEN <<>> ELSE Lookup(state, id[1])
      valueStr == IF Truthy(value) THEN value[1] ELSE field
  IN IF isEdit /\ isFocused /\ id # <<>> /\ id[1] \in errorFields
       THEN parseStyle(orDefault(opts.errorStyle, defaultErrorStyle), valueStr)
     ELSE IF isEdit /\ isFocused
       THEN parseStyle(orDefault(opts.editingStyle, defaultEditingStyle), valueStr)
     ELSE IF isFocused
       THEN parseStyle(orDefault(opts.selectedStyle, defaultSelectedStyle), valueStr)
     ELSE valueStr

\* The callback of template.replace: what one match is replaced by.
replaceMatch(opts, fieldsMap, match, state, isEdit, errorFields, focusedField) ==
  LET field == SubSeq(match, 2, Len(match) - 1)
      id == idOf(field)
      isFocused == focusedField # <<>> /\ id = focusedField
      fieldConfig == IF id # <<>> /\ id[1] \in DOMAIN fieldsMap
                       THEN <<fieldsMap[id[1]]>> ELSE <<>>
      value == IF id = <<>> THEN <<>> ELSE Lookup(state, id[1])
      valueStr == IF ~Truthy(value)
                    THEN IF fieldConfig # <<>> /\ fieldConfig[1].placeholder # <<>>
                           THEN fieldConfig[1].placeholder[1] ELSE field
                    ELSE value[1]
  IN IF isEdit /\ isFocused /\ id # <<>> /\ id[1] \in errorFields
       THEN parseStyle(orDefault(opts.errorStyle, defaultErrorStyle), valueStr)
     ELSE IF isEdit /\ isFocused
       THEN parseStyle(orDefault(opts.editingStyle, defaultEditingStyle), valueStr)
     ELSE IF isFocused
       THEN parseStyle(orDefault(opts.selectedStyle, defaultSelectedStyle), valueStr)
     ELSE valueStr

RECURSIVE concat(_)
concat(texts) == IF texts = <<>> THEN <<>> ELSE Head(texts) \o concat(Tail(texts))

\* template.replace(/{(\w+)}/g, match => ...) over the matches of the template.
replaceAll(pieces, opts, fieldsMap, state, isEdit, errorFields, focusedField) ==
  concat([i \in 1..Len(pieces) |->
            IF pieces[i].match
              THEN replaceMatch(opts, fieldsMap, pieces[i].text, state,
                                isEdit, errorFields, focusedField)
              ELSE pieces[i].text])

\* The renderer built from RendererOpts, applied.
renderer(opts, fieldsMap, state, isEdit, errorFields, focusedField) ==
  replaceAll(matchAll(opts.template, 1), opts, fieldsMap, state, isEdit,
             errorFields, focusedField)

\* A template written as its parts: literal text and {id} placeholders.
Lit(text) == [ph |-> FALSE, text |-> text]
Ph(text) == [ph |-> TRUE, text |-> text]

templateOf(parts) ==
  concat([i \in 1..Len(parts) |->
            IF parts[i].ph THEN <<"{">> \o parts[i].text \o <<"}">>
            ELSE parts[i].text])

\* '{type}({scope}): {body} {misc} {} {no id}' and '{name}: {age}/{note} {{name}'
TemplateParts ==
  [commit |-> << Ph(idText.type), Lit(<<"(">>), Ph(idText.scope),
                 Lit(<<")", ":", " ">>), Ph(idText.body), Lit(<<" ">>),
                 Ph(<<"m", "i", "s", "c">>),
                 Lit(<<" ", "{", "}", " ", "{", "n", "o", " ", "i", "d", "}">>) >>,
   form |-> << Ph(idText.name), Lit(<<":", " ">>), Ph(idText.age),
               Lit(<<"/">>), Ph(idText.note), Lit(<<" ", "{">>),
               Ph(idText.name) >>,
   twins |-> << Ph(idText.name) >>]

\* config.renderer of each configuration: the commit prompt keeps the
\* default styles, the form prompt sets two of its own.
Renderers ==
  [commit |-> RendererOpts(templateOf(TemplateParts.commit), <<>>, <<>>, <<>>),
   form |-> RendererOpts(templateOf(TemplateParts.form),
                         <<StyleArray(<<"bold", "red">>)>>,
                         <<StyleName("green")>>, <<>>),
   twins |-> RendererOpts(templateOf(TemplateParts.twins), <<>>, <<>>, <<>>)]

\* useMemo: the fields by id and the matches of the template, per configuration.
FieldsMemo == [g \in DOMAIN Grids |-> fieldsById(Grids[g])]
TemplateMatches == [g \in DOMAIN Grids |-> matchAll(Renderers[g].template, 1)]

\* editMode && currentField ? { ...values, [currentField.id]: editValue } : values
displayState ==
  IF editMode /\ currentField # <<>>
    THEN Spread(values, currentField[1].id, editValue) ELSE values

\* currentField?.id
focusedId == IF currentField = <<>> THEN <<>> ELSE <<currentField[1].id>>

\* renderer(displayState, editMode, Object.keys(errors), currentField?.id)
rendered ==
  replaceAll(TemplateMatches[config.fields], Renderers[config.fields],
             FieldsMemo[config.fields], displayState, editMode, DOMAIN errors,
             focusedId)

(***************************************************************************)
(* What the renderer must produce, stated from the parts of the template.  *)
(***************************************************************************)
StyleTokens == UNION {{styles[s][1], styles[s][2]} : s \in DOMAIN styles}

\* A rendered text without its escape sequences.
plain(text) == SelectSeq(text, LAMBDA e : e \notin StyleTokens)

\* The text a part stands for: the value when it is not empty, else the
\* field's placeholder, '<id>' or 'id?' when the field declares none, else
\* the bare id when no field has that id.
expectedText(part, fieldGrid, state) ==
  LET named == {f \in FlatSet(fieldGrid) : idText[f.id] = part.text}
  IN IF ~part.ph THEN part.text
     ELSE IF named = {} THEN part.text
     ELSE LET f == CHOOSE f \in named : TRUE
          IN IF f.id \in DOMAIN state /\ state[f.id] # <<>> THEN state[f.id]
             ELSE IF f.placeholder # <<>> /\ f.placeholder[1] # <<>>
                    THEN f.placeholder[1]
             ELSE IF f.required THEN <<"<">> \o part.text \o <<">">>
             ELSE part.text \o <<"?">>

\* The commit example: '{type}({scope}): {subject}' with type 'feat', an
\* empty optional scope without placeholder, subject 'fix bug', nothing
\* focused and no error.
ExampleGrid ==
  << << Field("type", TRUE, <<>>, <<>>, <<>>),
        Field("scope", FALSE, <<>>, <<>>, <<>>),
        Field("subject", TRUE, <<>>, <<>>, <<>>) >> >>

ExampleOpts ==
  RendererOpts(templateOf(<< Ph(idText.type), Lit(<<"(">>), Ph(idText.scope),
                             Lit(<<")", ":", " ">>), Ph(idText.subject) >>),
               <<>>, <<>>, <<>>)

ExampleState ==
  [type |-> <<"f", "e", "a", "t">>, scope |-> <<>>,
   subject |-> <<"f", "i", "x", " ", "b", "u", "g">>]

ExampleRendersAsDocumented ==
  renderer(ExampleOpts, fieldsById(ExampleGrid), ExampleState, FALSE, {}, <<>>)
    = <<"f", "e", "a", "t", "(", "s", "c", "o", "p", "e", "?", ")", ":", " ",
        "f", "i", "x", " ", "b", "u", "g">>

\* C19: the renderer replaces every {fieldId} of the template by the field's
\* value when it is not empty, else by the field's placeholder ('<id>' for a
\* required field and 'id?' for an optional one that declare none), else by
\* the bare id, and leaves the rest of the template as it is; the commit
\* example renders as 'feat(scope?): fix bug'.
C19_TemplateFilled ==
  /\ ExampleRendersAsDocumented
  /\ plain(rendered)
       = concat([i \in 1..Len(TemplateParts[config.fields]) |->
                   expectedText(TemplateParts[config.fields][i], fields,
                                displayState)])

\* The commit prompt after scope was removed: a required field and an
\* optional field without value or placeholder, a field with a placeholder
\* and a template id that names no field are all rendered at once.
C19_Witness ==
  /\ fired = "remove"
  /\ "scope" \notin DOMAIN values
  /\ plain(rendered)
       = <<"<", "t", "y", "p", "e", ">", "(", "s", "c", "o", "p", "e", "?", ")",
           ":", " ", "t", "e", "x", "t", " ", "m", "i", "s", "c", " ", "{", "}",
           " ", "{", "n", "o", " ", "i", "d", "}">>

\* style applied to a text: the sequences the styles of an array open with,
\* the last outermost, around the text; a function style is its own result.
expectedStyle(style, text) ==
  IF style.kind = "function" THEN runStyleFunction(style.fn, text)
  ELSE LET names == IF style.kind = "array" THEN style.names ELSE <<style.name>>
           n == Len(names)
       IN [i \in 1..n |-> styles[names[n + 1 - i]][1]] \o text
            \o [i \in 1..n |-> styles[names[i]][2]]

\* A part of the template rendered with the style its focus, the mode and
\* the error set call for.
expectedPart(part, opts, fieldGrid, state, isEdit, errorFields, focusedField) ==
  LET text == expectedText(part, fieldGrid, state)
      isFocused == /\ part.ph
                   /\ focusedField # <<>>
                   /\ idText[focusedField[1]] = part.text
  IN IF isEdit /\ isFocused /\ focusedField[1] \in errorFields
       THEN expectedStyle(orDefault(opts.errorStyle, defaultErrorStyle), text)
     ELSE IF isEdit /\ isFocused
       THEN expectedStyle(orDefault(opts.editingStyle, defaultEditingStyle), text)
     ELSE IF isFocused
       THEN expectedStyle(orDefault(opts.selectedStyle, defaultSelectedStyle), text)
     ELSE text

expectedRender(parts, opts, fieldGrid, state, isEdit, errorFields, focusedField) ==
  concat([i \in 1..Len(parts) |->
            expectedPart(parts[i], opts, fieldGrid, state, isEdit, errorFields,
                         focusedField)])

\* The form prompt's renderer with function styles.
FunctionStyleOpts ==
  RendererOpts(Renderers.form.template, <<StyleFunction("bracket")>>,
               <<StyleName("underline")>>, <<StyleFunction("bracket")>>)

StyledRenderers ==
  { [grid |-> "commit", opts |-> Renderers.commit],
    [grid |-> "form", opts |-> Renderers.form],
    [grid |-> "form", opts |-> FunctionStyleOpts] }

\* Every mode, focus and error set, over an empty and a filled state.
StylePriorityEverywhere ==
  \A r \in StyledRenderers :
    LET ids == FieldIds(Grids[r.grid])
    IN \A isEdit \in BOOLEAN :
       \A focusedField \in {<<>>} \cup {<<id>> : id \in ids} :
       \A errorFields \in SUBSET (ids \cup {""}) :
       \A state \in {[id \in ids |-> <<>>], [id \in ids |-> <<"a">>]} :
         replaceAll(TemplateMatches[r.grid], r.opts, FieldsMemo[r.grid], state,
                    isEdit, errorFields, focusedField)
           = expectedRender(TemplateParts[r.grid], r.opts, Grids[r.grid],
                            state, isEdit, errorFields, focusedField)

\* C20: a field is rendered in the error style when the mode is Edit, it is
\* focused and its id is in the error set, else in the editing style when the
\* mode is Edit and it is focused, else in the selected style when it is
\* focused, else without style; a field that is not focused is never styled.
C20_StylePriority ==
  /\ StylePriorityEverywhere
  /\ rendered
       = expectedRender(TemplateParts[config.fields], Renderers[config.fields],
                        fields, displayState, editMode, DOMAIN errors, focusedId)

\* The field being edited has an error and is painted in the error style,
\* which ends with red.
C20_Witness ==
  /\ editMode
  /\ focusedId # <<>>
  /\ focusedId[1] \in DOMAIN errors
  /\ \E i \in 1..Len(rendered) : rendered[i] = styles.red[1]

(***************************************************************************)
(* The state a session starts in.                                          *)
(***************************************************************************)
\* The value a field starts with under one initialValues.
startsWith(f, initialValues) ==
  IF initialValues # <<>> /\ f.id \in DOMAIN initialValues[1]
    THEN initialValues[1][f.id]
  ELSE IF f.defaultValue # <<>> THEN f.defaultValue[1]
  ELSE <<>>

InitialValuesEverywhere ==
  \A g \in DOMAIN Grids : \A initialValues \in InitialValuesOf(Grids[g]) :
    LET initial == initialState(Grids[g], initialValues)
    IN /\ DOMAIN initial = FieldIds(Grids[g])
       /\ \A f \in FlatSet(Grids[g]) :
            initial[f.id] = startsWith(f, initialValues)

\* C25: a session starts in Navigate mode at row 0, col 0 with no error and
\* an empty edit buffer, and every field's value is the initialValues entry
\* of its id when one is supplied, the empty string included, otherwise the
\* field's defaultValue, otherwise the empty string.
C25_InitialState ==
  fired = "init" =>
    /\ InitialValuesEverywhere
    /\ ~editMode
    /\ position = [row |-> 0, col |-> 0]
    /\ errors = <<>>
    /\ editValue = <<>>
    /\ ~terminated
    /\ DOMAIN values = FieldIds(fields)
    /\ \E initialValues \in InitialValuesOf(fields) :
         \A f \in FlatSet(fields) : values[f.id] = startsWith(f, initialValues)

\* An empty initial value was supplied for a field that has a default, and
\* the field starts empty.
C25_Witness ==
  /\ fired = "init"
  /\ \E f \in FlatSet(fields) :
       /\ f.defaultValue # <<>> /\ f.defaultValue[1] # <<>>
       /\ values[f.id] = <<>>

(***************************************************************************)
(* The painted string.  Object.entries lists the errors in the order they  *)
(* were inserted; the errors mapping does not keep that order, so entriesOf *)
(* lists the keys in one fixed order.                                      *)
(***************************************************************************)
\* ansi-escapes cursorHide
cursorHide == "ESC[?25l"

newline == "\n"

\* Object.entries(rec): its keys, each once.
entriesOf(rec) ==
  CHOOSE keys \in [1..Cardinality(DOMAIN rec) -> DOMAIN rec] :
    \A k \in DOMAIN rec : \E i \in DOMAIN keys : keys[i] = k

\* texts.join(sep), '' for no text
joinOrEmpty(texts, sep) == IF texts = <<>> THEN <<>> ELSE joinWith(texts, sep)

\* errorString useMemo
errorString(errs) ==
  LET keys == entriesOf(errs)
      errorMessage ==
        joinOrEmpty([i \in 1..Len(keys) |->
                       <<"- [", keys[i], "] ">> \o errs[keys[i]]],
                    <<newline>>)
  IN IF errorMessage # <<>>
       THEN <<newline, newline>> \o applyStyle("red", errorMessage)
       ELSE errorMessage

\* actionString useMemo
actionString(isEdit, editList, navigationList) ==
  LET list == IF isEdit THEN editList ELSE navigationList
  IN joinOrEmpty([i \in 1..Len(list) |-> toString(list[i])], <<" ", "|", " ">>)

\* The legend of each mode of each configuration.
ActionStrings ==
  [u \in DOMAIN UserActionLists |->
     [mode \in BOOLEAN |->
        actionString(mode, ParsedActions[u].editActions,
                     ParsedActions[u].navigationActions)]]

\* `${actionString}\n\n${rendered}${errorString}`
textOf(body) ==
  ActionStrings[config.actions][editMode] \o <<newline, newline>> \o body
    \o errorString(errors)

\* The prompt's return with the cursor hidden in both modes.
outputHidesAlways(str, isEdit) == str \o <<cursorHide>>

\* if (editMode) return text; return `${text}${cursorHide}`
output(str, isEdit) == IF isEdit THEN str ELSE str \o <<cursorHide>>

painted == output(textOf(rendered), editMode)

\* The lines of a text.
RECURSIVE linesOf(_)
linesOf(s) ==
  IF indexesOf(s, newline) = {} THEN <<s>>
  ELSE <<SubSeq(s, 1, Min(indexesOf(s, newline)) - 1)>>
         \o linesOf(SubSeq(s, Min(indexesOf(s, newline)) + 1, Len(s)))

\* The legend of a list of actions: 'name label' of each, ' | ' between.
expectedLegend(list) ==
  concat([i \in 1..Len(list) |->
            (IF i = 1 THEN <<>> ELSE <<" ", "|", " ">>)
              \o <<list[i].name, " ">> \o list[i].label])

\* C21: the painted string is the legend of the current mode's actions only,
\* a blank line, the rendered body, then the red error list, one line
\* '- [id] message' per entry of the errors, if and only if there is an error;
\* the cursor-hide sequence ends it if and only if the mode is Navigate.
C21_PaintedString ==
  LET list == IF editMode THEN editActions ELSE navigationActions
      body == rendered
      all == output(textOf(body), editMode)
      hidden == all # <<>> /\ all[Len(all)] = cursorHide
      shown == IF hidden THEN SubSeq(all, 1, Len(all) - 1) ELSE all
      legend == expectedLegend(list)
      n == Len(legend) + 2 + Len(body)
      tail == SubSeq(shown, n + 1, Len(shown))
      listed == linesOf(SubSeq(tail, 4, Len(tail) - 1))
  IN /\ hidden <=> ~editMode
     /\ \A i \in 1..Len(shown) : shown[i] # cursorHide
     /\ Len(shown) >= n
     /\ all = painted
     /\ SubSeq(shown, 1, n) = legend \o <<newline, newline>> \o body
     /\ DOMAIN errors = {} => tail = <<>>
     /\ DOMAIN errors # {} =>
          /\ SubSeq(tail, 1, 3) = <<newline, newline, styles.red[1]>>
          /\ tail[Len(tail)] = styles.red[2]
          /\ Len(listed) = Cardinality(DOMAIN errors)
          /\ {listed[i] : i \in 1..Len(listed)}
               = {<<"- [", k, "] ">> \o errors[k] : k \in DOMAIN errors}

\* Edit mode with two errors: the edit legend, the body and two error lines
\* are painted, and the cursor is not hidden.
C21_Witness ==
  /\ editMode
  /\ Cardinality(DOMAIN errors) = 2
  /\ painted[Len(painted)] = styles.red[2]

(***************************************************************************)
(* Configurations the specification rejects.                               *)
(***************************************************************************)
\* Two fields of the grid carry the same id.
hasDuplicateIds(fieldGrid) ==
  \E i, j \in 1..Len(getFlatFields(fieldGrid)) :
    i # j /\ getFlatFields(fieldGrid)[i].id = getFlatFields(fieldGrid)[j].id

\* A well-formed key combo: distinct modifier names, then one key name, none
\* of them empty, joined by '+'.
wellFormedCombo(keyCombination) ==
  With(split(keyCombination), LAMBDA parts :
    /\ \A i \in 1..Len(parts) : parts[i] # <<>>
    /\ \A i \in 1..(Len(parts) - 1) :
         \E m \in Modifiers : parts[i] = written.plain[m]
    /\ \A i, j \in 1..(Len(parts) - 1) : parts[i] = parts[j] => i = j)

hasMalformedCombo(actionConfigs) ==
  \E i \in 1..Len(actionConfigs) :
    ~wellFormedCombo(keyCombinationOf(actionConfigs[i].key))

\* C22: a configuration with two fields of the same id, or with a malformed
\* key combo among its actions, is rejected when it is resolved: its session
\* never processes a key event.
C22_InvalidConfigRejected ==
  (hasDuplicateIds(fields) \/ hasMalformedCombo(actions)) => fired = "init"

(***************************************************************************)
(* The shape of the values mapping.                                        *)
(***************************************************************************)
\* C23: the values mapping always has exactly one entry for every field id of
\* the grid and no other entry; remove leaves the current field's entry
\* present with the empty string and leaves every other entry, the mode, the
\* position and the errors unchanged.
C23_OneEntryPerField ==
  /\ [](DOMAIN values = FieldIds(fields))
  /\ [][(fired' = "remove" /\ currentField # <<>>) =>
          /\ values' = Spread(values, currentField[1].id, <<>>)
          /\ UNCHANGED <<editMode, position, errors>>]_vars

(***************************************************************************)
(* Arrow keys in Navigate mode.                                            *)
(***************************************************************************)
\* C24: in Navigate mode a key event named up, down, left or right changes
\* only the position, to navigatePosition's result: the values, the errors,
\* the mode and the edit buffer are unchanged and no navigate action fires,
\* also when a user action is bound to that arrow or the event has modifiers.
C24_ArrowMovesOnly ==
  [][\A key \in Keys :
       (/\ key.name \in Directions
        /\ ~editMode
        /\ ~terminated
        /\ ArrowOn(key) \/ DispatchOn(key))
       => /\ position' = navigatePosition(fields, position, key.name)
          /\ UNCHANGED <<values, errors, editMode, editValue>>
          /\ fired' = "arrow"]_vars

\* An arrow step of the configuration that binds a user action to the up key,
\* taken away from the origin while errors are held.
C24_Witness ==
  /\ fired = "arrow"
  /\ config.actions = "custom"
  /\ Triggered[config.actions][Key(kUp, FALSE, FALSE, FALSE)].navigate # <<>>
  /\ errors # <<>>
  /\ position # origin

(***************************************************************************)
(* Focusing a field by id.                                                 *)
(***************************************************************************)
\* The positions of the grid whose field has the id.
positionsOf(fieldGrid, id) ==
  {pos \in ValidPositions(fieldGrid) : getFieldAtPosition(fieldGrid, pos)[1].id = id}

\* The first of a set of positions, rows first.
firstOf(positions) ==
  CHOOSE pos \in positions :
    \A other \in positions :
      pos.row < other.row \/ (pos.row = other.row /\ pos.col <= other.col)

\* C26: after an action has called setCurrentField(id) the position indexes an
\* existing field of the grid: the first field with that id when the grid has
\* one, and a position of the grid also when it has none.
C26_FocusStaysOnGrid ==
  [][fired' \in DOMAIN JumpTarget =>
       /\ position' \in ValidPositions(fields)
       /\ positionsOf(fields, JumpTarget[fired']) # {} =>
            position' = firstOf(positionsOf(fields, JumpTarget[fired']))]_vars

(***************************************************************************)
(* The focus during an edit.                                               *)
(***************************************************************************)
\* C27: with the default bindings no key event processed in Edit mode changes
\* the position, arrow keys included, nor does the event that enters Edit
\* mode; so a save commits the buffer to the field the edit was entered on.
C27_EditKeepsFocus ==
  [][DefaultBindings =>
       /\ (editMode \/ editMode') => position' = position
       /\ (fired' = "save" /\ editMode /\ ~editMode') =>
            /\ currentField # <<>>
            /\ values' = Spread(values, currentField[1].id, editValue)]_vars

\* A save of a typed value, committed away from the origin.
C27_Witness ==
  /\ DefaultBindings
  /\ fired = "save"
  /\ ~editMode
  /\ position # origin
  /\ currentField # <<>>
  /\ Truthy(Lookup(values, currentField[1].id))
  /\ lineRead = <<>>

(***************************************************************************)
(* The action and the pipeline on one Edit-mode key event.                 *)
(***************************************************************************)
\* C28: on an Edit-mode key event the matched action runs first and the
\* pipeline second, both on the state before the event: the errors and the
\* edit buffer afterwards are the pipeline's, computed from the errors before
\* the event, whatever the action wrote to them, while the values, the mode
\* and the position are as the action wrote them.
C28_PipelineWritesLast ==
  [][\A key \in Keys :
       (editMode /\ ~terminated /\ currentField # <<>> /\ EditOn(key)) =>
         LET found == Triggered[config.actions][key].edit
             acted == IF found # <<>> THEN trigger(found[1], Controls, Store)
                      ELSE Store
             f == currentField[1]
             msg == pipelineMessage(f, lineRead')
         IN /\ values' = acted.state
            /\ editMode' = acted.editMode
            /\ position' = acted.position
            /\ editValue' = pipelineValue(f, lineRead')
            /\ errors' = IF msg = <<>> THEN Omit(errors, f.id)
                         ELSE Spread(errors, f.id, msg)]_vars

\* The callback that writes every cell has run in Edit mode: its value, mode
\* and position are kept, its error and its buffer are not.
C28_Witness ==
  /\ fired = "cbStash"
  /\ ~editMode
  /\ Lookup(values, "name") = <<stashValue>>
  /\ position = [row |-> 1, col |-> 1]
  /\ editValue # stashBuffer
  /\ Lookup(errors, "note") # <<stashError>>

====
